---- MODULE Spec2Model ----
(***************************************************************************)
(* Model of kmldom::Element (kml/dom/element.h, release 0.5): the parent   *)
(* back-pointer, the generic complex-child helpers SetComplexChild and     *)
(* AddComplexChild, and the misplaced-element array filled by AddElement.  *)
(*                                                                         *)
(* Every element of the universe is kept alive by the caller (the caller   *)
(* holds an ElementPtr to it), so releasing a child from a field never     *)
(* destroys it.  Each element is given one single-child field and one      *)
(* child array, as a concrete element with one set_child() and one         *)
(* add_child() method would have.                                          *)
(***************************************************************************)
EXTENDS Integers, Sequences, FiniteSets

\* Number of elements in the universe.
NumNodes == 3

\* Bound on the total number of entries held in misplaced element arrays.
MaxMisplaced == 3

NULL == 0

Nodes == 1..NumNodes

NodeOrNull == Nodes \cup {NULL}

VARIABLES parent_, field, vec, unknown_legal_elements_array_, called, call

vars == <<parent_, field, vec, unknown_legal_elements_array_, called, call>>

----------------------------------------------------------------------------
\* Element::set_parent, the test of line 75: the call is refused.
SetParentFailsNoParentCheck(par, n, p) == p = n

SetParentFailsNoSelfCheck(par, n, p) == par[n] # NULL

SetParentFails(par, n, p) == par[n] # NULL \/ p = n

\* Element::set_parent: the returned bool and the new parent_ of every element.
set_parent_result(par, n, p) ==
  IF SetParentFails(par, n, p)
    THEN [ret |-> FALSE, parent |-> par]
    ELSE [ret |-> TRUE, parent |-> [par EXCEPT ![n] = p]]

\* Element::SetComplexChild: returned bool, new parent_, new value of *field.
SetComplexChildKeepsFieldOnNull(par, fld, this, child) ==
  IF child = NULL
    THEN [ret |-> TRUE, parent |-> par, field |-> fld]
    ELSE LET r == set_parent_result(par, child, this)
         IN  IF r.ret
               THEN [ret |-> TRUE, parent |-> r.parent, field |-> child]
               ELSE [ret |-> FALSE, parent |-> par, field |-> fld]

SetComplexChildAssignsOnFailure(par, fld, this, child) ==
  IF child = NULL
    THEN [ret |-> TRUE, parent |-> par, field |-> NULL]
    ELSE LET r == set_parent_result(par, child, this)
         IN  IF r.ret
               THEN [ret |-> TRUE, parent |-> r.parent, field |-> child]
               ELSE [ret |-> FALSE, parent |-> par, field |-> child]

SetComplexChildResetsReleased(par, fld, this, child) ==
  LET rel == IF fld = NULL THEN par ELSE [par EXCEPT ![fld] = NULL]
  IN  IF child = NULL
        THEN [ret |-> TRUE, parent |-> rel, field |-> NULL]
        ELSE LET r == set_parent_result(par, child, this)
             IN  IF r.ret
                   THEN [ret |-> TRUE,
                         parent |-> [rel EXCEPT ![child] = this],
                         field |-> child]
                   ELSE [ret |-> FALSE, parent |-> par, field |-> fld]

SetComplexChild_result(par, fld, this, child) ==
  IF child = NULL
    THEN [ret |-> TRUE, parent |-> par, field |-> NULL]
    ELSE LET r == set_parent_result(par, child, this)
         IN  IF r.ret
               THEN [ret |-> TRUE, parent |-> r.parent, field |-> child]
               ELSE [ret |-> FALSE, parent |-> par, field |-> fld]

\* Element::AddComplexChild: returned bool, new parent_, new contents of *vec.
AddComplexChildTrueOnNull(par, v, this, child) ==
  IF child = NULL
    THEN [ret |-> TRUE, parent |-> par, vec |-> v]
    ELSE LET r == set_parent_result(par, child, this)
         IN  IF r.ret
               THEN [ret |-> TRUE, parent |-> r.parent, vec |-> Append(v, child)]
               ELSE [ret |-> FALSE, parent |-> par, vec |-> v]

AddComplexChildPushesOnFailure(par, v, this, child) ==
  IF child = NULL
    THEN [ret |-> FALSE, parent |-> par, vec |-> v]
    ELSE LET r == set_parent_result(par, child, this)
         IN  [ret |-> r.ret, parent |-> r.parent, vec |-> Append(v, child)]

AddComplexChild_result(par, v, this, child) ==
  LET r == IF child # NULL THEN set_parent_result(par, child, this)
                           ELSE [ret |-> FALSE, parent |-> par]
  IN  IF child # NULL /\ r.ret
        THEN [ret |-> TRUE, parent |-> r.parent, vec |-> Append(v, child)]
        ELSE [ret |-> FALSE, parent |-> par, vec |-> v]

\* Element::AddElement, the base implementation: the element is appended to
\* the misplaced array and its parent is set through set_parent.
AddElement_result(par, arr, this, element) ==
  [parent |-> set_parent_result(par, element, this).parent,
   array  |-> Append(arr, element)]

\* Total number of entries of all misplaced element arrays.
RECURSIVE SumLen(_, _)
SumLen(f, S) ==
  IF S = {} THEN 0
  ELSE LET n == CHOOSE x \in S : TRUE
       IN  Len(f[n]) + SumLen(f, S \ {n})

----------------------------------------------------------------------------
\* No call is outstanding: the caller has consumed the last returned value.
NoCall == [op |-> "none", this |-> NULL, arg |-> NULL, ret |-> FALSE,
           old |-> NULL]

Init ==
  /\ parent_ = [n \in Nodes |-> NULL]
  /\ field = [n \in Nodes |-> NULL]
  /\ vec = [n \in Nodes |-> <<>>]
  /\ unknown_legal_elements_array_ = [n \in Nodes |-> <<>>]
  /\ called = [n \in Nodes |-> FALSE]
  /\ call = NoCall

\* n->set_parent(p), called directly.
set_parent(n, p) ==
  LET r == set_parent_result(parent_, n, p)
  IN  /\ call = NoCall
      /\ parent_' = r.parent
      /\ called' = [called EXCEPT ![n] = TRUE]
      /\ call' = [op |-> "set_parent", this |-> n, arg |-> p, ret |-> r.ret,
                  old |-> NULL]
      /\ UNCHANGED <<field, vec, unknown_legal_elements_array_>>

\* this->SetComplexChild(child, &this->field).
SetComplexChild(this, child) ==
  LET r == SetComplexChild_result(parent_, field[this], this, child)
  IN  /\ call = NoCall
      /\ parent_' = r.parent
      /\ field' = [field EXCEPT ![this] = r.field]
      /\ called' = IF child = NULL THEN called
                   ELSE [called EXCEPT ![child] = TRUE]
      /\ call' = [op |-> "SetComplexChild", this |-> this, arg |-> child,
                  ret |-> r.ret, old |-> field[this]]
      /\ UNCHANGED <<vec, unknown_legal_elements_array_>>

\* this->AddComplexChild(child, &this->vec).
AddComplexChild(this, child) ==
  LET r == AddComplexChild_result(parent_, vec[this], this, child)
  IN  /\ call = NoCall
      /\ parent_' = r.parent
      /\ vec' = [vec EXCEPT ![this] = r.vec]
      /\ called' = IF child = NULL THEN called
                   ELSE [called EXCEPT ![child] = TRUE]
      /\ call' = [op |-> "AddComplexChild", this |-> this, arg |-> child,
                  ret |-> r.ret, old |-> NULL]
      /\ UNCHANGED <<field, unknown_legal_elements_array_>>

\* this->Element::AddElement(element), reached through the delegation chain.
AddElement(this, element) ==
  /\ call = NoCall
  /\ SumLen(unknown_legal_elements_array_, Nodes) < MaxMisplaced
  /\ LET r == AddElement_result(parent_, unknown_legal_elements_array_[this],
                                this, element)
     IN  /\ parent_' = r.parent
         /\ unknown_legal_elements_array_' =
              [unknown_legal_elements_array_ EXCEPT ![this] = r.array]
         /\ called' = [called EXCEPT ![element] = TRUE]
         /\ call' = [op |-> "AddElement", this |-> this, arg |-> element,
                     ret |-> TRUE, old |-> NULL]
         /\ UNCHANGED <<field, vec>>

\* The call returns to its caller, which consumes the returned value.
Return ==
  /\ call # NoCall
  /\ call' = NoCall
  /\ UNCHANGED <<parent_, field, vec, unknown_legal_elements_array_, called>>

Next ==
  \/ \E n \in Nodes, p \in NodeOrNull : set_parent(n, p)
  \/ \E this \in Nodes, child \in NodeOrNull : SetComplexChild(this, child)
  \/ \E this \in Nodes, child \in NodeOrNull : AddComplexChild(this, child)
  \/ Return

Spec == Init /\ [][Next]_vars

NextMisplaced ==
  \/ \E this \in Nodes, element \in Nodes : AddElement(this, element)
  \/ Return

SpecMisplaced == Init /\ [][NextMisplaced]_vars

----------------------------------------------------------------------------
TypeOK ==
  /\ parent_ \in [Nodes -> NodeOrNull]
  /\ field \in [Nodes -> NodeOrNull]
  /\ \A n \in Nodes : vec[n] \in Seq(Nodes)
  /\ \A n \in Nodes : unknown_legal_elements_array_[n] \in Seq(Nodes)
  /\ called \in [Nodes -> BOOLEAN]

\* The places (field or array position) of owner o that hold element n.
Holdings(n) ==
  LET InField == {<<o, 0>> : o \in {x \in Nodes : field[x] = n}}
      Places == UNION {{o} \X DOMAIN vec[o] : o \in Nodes}
      InVec == {h \in Places : vec[h[1]][h[2]] = n}
  IN  InField \cup InVec

Held(n) == Holdings(n) # {}

\* The element reached from n after k steps along parent_, NULL when the
\* chain ends before.
RECURSIVE Up(_, _)
Up(n, k) ==
  IF k = 0 \/ n = NULL THEN n ELSE Up(parent_[n], k - 1)

Helpers == {"SetComplexChild", "AddComplexChild"}

\* This step is a call that invokes set_parent on n: directly, or from a
\* helper that was handed n as the child.
SetParentCalledOn(n) ==
  /\ call = NoCall
  /\ \/ call'.op = "set_parent" /\ call'.this = n
     \/ call'.op \in Helpers /\ call'.arg = n

\* The argument set_parent is given in such a step.
SetParentArg ==
  IF call'.op = "set_parent" THEN call'.arg ELSE call'.this

\* This step is a call of a helper.
HelperCall == call = NoCall /\ call'.op \in Helpers

\* The destination (field or array) of the helper call of this step changed.
DestinationChanged ==
  \/ call'.op = "SetComplexChild" /\ field'[call'.this] # field[call'.this]
  \/ call'.op = "AddComplexChild" /\ vec'[call'.this] # vec[call'.this]

----------------------------------------------------------------------------
\* C1 (as stated): the second call of set_parent on an element fails and
\* leaves its parent unchanged, whatever the first call was given.
C1_SecondCallFails ==
  [][\A n \in Nodes :
       (called[n] /\ SetParentCalledOn(n))
         => (call'.ret = FALSE /\ parent_'[n] = parent_[n])]_vars

\* C1 (amended): a call of set_parent on an element whose parent is already
\* set to a present element fails and leaves the parent unchanged; a later
\* call on an element that still has no parent (the earlier calls were given
\* NULL or the element itself) fails exactly when it is given the element
\* itself, and otherwise sets the parent to its argument.
C1_CallAfterParentSetFails ==
  [][\A n \in Nodes :
       (called[n] /\ SetParentCalledOn(n))
         => /\ parent_[n] # NULL
                 => (call'.ret = FALSE /\ parent_'[n] = parent_[n])
            /\ parent_[n] = NULL
                 => /\ call'.ret = (SetParentArg # n)
                    /\ parent_'[n] = IF SetParentArg # n THEN SetParentArg
                                                         ELSE NULL]_vars

\* A second call with another element as argument failed on an element that
\* has a parent.
C1_Witness ==
  /\ call.op = "set_parent"
  /\ call.ret = FALSE
  /\ call.arg \notin {NULL, call.this}
  /\ parent_[call.this] \notin {NULL, call.arg}

\* C2: no element is its own ancestor along parent_.
C2_NoNodeIsOwnAncestor ==
  \A n \in Nodes, k \in 1..NumNodes : Up(n, k) # n

\* C3: a helper called with a present child either succeeds, and then the
\* child's parent is the owner and the child is in the field (last in the
\* array), or fails, and then the field, the array and the child's parent are
\* as before.
C3_AttachSuccessOrUnchanged ==
  [][(HelperCall /\ call'.arg # NULL) =>
       LET o == call'.this
           c == call'.arg
       IN  /\ call'.ret =>
                /\ parent_'[c] = o
                /\ call'.op = "SetComplexChild" => field'[o] = c
                /\ call'.op = "AddComplexChild" =>
                     /\ Len(vec'[o]) = Len(vec[o]) + 1
                     /\ vec'[o][Len(vec'[o])] = c
           /\ ~call'.ret =>
                /\ field' = field
                /\ vec' = vec
                /\ parent_'[c] = parent_[c]]_vars

\* SetComplexChild failed on an occupied field, which still holds its
\* occupant.
C3_Witness ==
  /\ call.op = "SetComplexChild"
  /\ call.arg # NULL
  /\ call.ret = FALSE
  /\ call.old # NULL
  /\ field[call.this] = call.old

\* C4 (as stated): AddComplexChild with a NULL child returns true and leaves
\* the array unchanged.
C4_AddNullSucceeds ==
  [][(HelperCall /\ call'.op = "AddComplexChild" /\ call'.arg = NULL)
       => (call'.ret = TRUE /\ vec' = vec)]_vars

\* C4 (amended): AddComplexChild with a NULL child returns false and leaves
\* the array and every parent unchanged.
C4_AddNullReturnsFalse ==
  [][(HelperCall /\ call'.op = "AddComplexChild" /\ call'.arg = NULL)
       => (call'.ret = FALSE /\ vec' = vec /\ parent_' = parent_)]_vars

\* AddComplexChild was called with NULL on an owner whose array is not empty.
C4_Witness ==
  /\ call.op = "AddComplexChild"
  /\ call.arg = NULL
  /\ vec[call.this] # <<>>

\* C5: SetComplexChild with a NULL child returns true and leaves the field
\* empty.
C5_SetNullClears ==
  (call.op = "SetComplexChild" /\ call.arg = NULL)
    => (call.ret = TRUE /\ field[call.this] = NULL)

\* SetComplexChild was called with NULL on a field that held an element.
C5_Witness ==
  /\ call.op = "SetComplexChild"
  /\ call.arg = NULL
  /\ call.old # NULL

\* C6 (as stated): a helper call changes its destination exactly when it
\* made a successful parent assignment.
C6_ChangedIffParentAssigned ==
  [][HelperCall => (DestinationChanged <=> parent_' # parent_)]_vars

\* C6 (amended): a helper call with a present child, and every call of
\* AddComplexChild, changes its destination exactly when it made a successful
\* parent assignment; SetComplexChild with a NULL child makes no parent
\* assignment and empties the field.
C6_ChangedIffParentAssignedUnlessCleared ==
  [][HelperCall =>
       IF call'.op = "SetComplexChild" /\ call'.arg = NULL
         THEN parent_' = parent_ /\ field'[call'.this] = NULL
         ELSE DestinationChanged <=> parent_' # parent_]_vars

\* SetComplexChild replaced the occupant of a field by another child.
C6_Witness ==
  /\ call.op = "SetComplexChild"
  /\ call.arg # NULL
  /\ call.ret = TRUE
  /\ call.old \notin {NULL, call.arg}
  /\ field[call.this] = call.arg

\* C7: an element held in a field or array of an owner has that owner as its
\* parent, and no element is held in two places.
C7_HeldChildHasOwnerAsParent ==
  \A n \in Nodes :
    /\ \A h \in Holdings(n) : parent_[n] = h[1]
    /\ Cardinality(Holdings(n)) <= 1

\* A helper refused a child that another owner holds.
C7_Witness ==
  /\ call.op \in Helpers
  /\ call.arg \notin {NULL, call.this}
  /\ call.ret = FALSE
  /\ \E h \in Holdings(call.arg) : h[1] # call.this

C9_SelfParentFails ==
  [][(call = NoCall /\ call'.op \in Helpers \cup {"set_parent"}
        /\ call'.arg = call'.this)
       => /\ call'.ret = FALSE
          /\ parent_' = parent_
          /\ field' = field
          /\ vec' = vec]_vars

\* An element without a parent was handed to its own SetComplexChild.
C9_Witness ==
  /\ call.op = "SetComplexChild"
  /\ call.arg = call.this
  /\ parent_[call.this] = NULL

\* C10: a parent that is set to a present element never changes, and a
\* helper handed a child that has a parent fails.
C10_ParentNeverReset ==
  [][/\ \A n \in Nodes : parent_[n] # NULL => parent_'[n] = parent_[n]
     /\ (HelperCall /\ call'.arg # NULL /\ parent_[call'.arg] # NULL)
          => call'.ret = FALSE]_vars

\* SetComplexChild released the occupant of a field, which is held nowhere
\* and still has the owner as its parent.
C10_Witness ==
  /\ call.op = "SetComplexChild"
  /\ call.ret = TRUE
  /\ call.old \notin {NULL, call.arg}
  /\ ~Held(call.old)
  /\ parent_[call.old] = call.this

====
